---- MODULE Spec2Model ----
(***************************************************************************)
(* A model of plottable's rendering core: the ComponentContainer lifecycle *)
(* (anchor / render / remove / destroy / invalidateCache), the Numeric     *)
(* axis' tick-label layout, the Grid plot's projection wiring and the      *)
(* Rectangle drawer's canvas draw.                                         *)
(***************************************************************************)
EXTENDS Integers, Sequences, FiniteSets, TLC

VARIABLES
  \* ---- component tree (ComponentContainer, Numeric axis measurer) ----
  children,     \* container -> its components, in insertion order
  parent,       \* component -> its parent container, or None
  isAnchored,   \* component -> _isAnchored
  isSetup,      \* component -> _isSetup (an axis has a _measurer iff set up)
  destroyed,    \* component -> _destroyed
  onDetach,     \* component -> the containers whose _detachCallback is subscribed
  cache,        \* axis -> the texts its CacheMeasurer holds a measurement of
  log,          \* the calls made by the last operation, in order
  thrown,       \* whether the last operation ended by an exception
  lastOp,       \* the last operation: its name, receiver, argument, pre-state
  \* ---- Numeric axis ----
  domain,       \* the scale's domain, <<domain[0], domain[1]>>
  rectOf,       \* tick value -> its label's getBoundingClientRect()
  boundingBox,  \* the axis' _boundingBox rectangle
  showEnd,      \* showEndTickLabels()
  positioning,  \* _tickLabelPositioning
  tickLabels,   \* the tick label elements: [value, visibility]
  tickMarks,    \* the tick mark elements: [value, visibility]
  pass,         \* what the last overlap pass saw and chose
  axisOp,       \* the last axis operation
  \* ---- Grid plot ----
  projections,        \* _projections: attribute -> [accessor, scale]
  colorScale,         \* _colorScale
  datasetKeysInOrder, \* _datasetKeysInOrder
  datasets,           \* key -> the dataset stored under it
  nextSeriesIndex,    \* _nextSeriesIndex, numbering the datasets added without a key
  gridOp,             \* the last plot operation, what it did and the state it began in
  \* ---- Rectangle drawer ----
  data,         \* the data points handed to the drawer, in order
  step,         \* the attributes the draw step has a projector for
  context,      \* the canvas context: its styles and the calls made on it
  drawn         \* whether _canvasDraw has run on data and step as they are

treeVars == <<children, parent, isAnchored, isSetup, destroyed, onDetach, cache,
              log, thrown, lastOp>>

axisVars == <<domain, rectOf, boundingBox, showEnd, positioning, tickLabels,
              tickMarks, pass, axisOp>>

gridVars == <<projections, colorScale, datasetKeysInOrder, datasets,
              nextSeriesIndex, gridOp>>

drawVars == <<data, step, context, drawn>>

vars == <<treeVars, axisVars, gridVars, drawVars>>

notTree == <<axisVars, gridVars, drawVars>>
notAxis == <<treeVars, gridVars, drawVars>>
notGrid == <<treeVars, axisVars, drawVars>>
notDraw == <<treeVars, axisVars, gridVars>>

None == "none"

(***************************************************************************)
(* The component tree.  G is a container that may hold the container H and *)
(* the Numeric axes; H may hold Numeric axes.                              *)
(***************************************************************************)
Containers == {"G", "H"}
Axes == {"a", "b"}
Comps == Containers \cup Axes

\* What a container may hold (no container holds itself or its ancestor).
MayHold(g) == IF g = "G" THEN {"H"} \cup Axes ELSE Axes

\* The formatted tick labels of an axis: formatter()(v) for v in _getTickValues().
FormattedTicks == <<"0", "10">>

\* The state the operations below thread through their calls.
St == [children |-> children, parent |-> parent, isAnchored |-> isAnchored,
       isSetup |-> isSetup, destroyed |-> destroyed, onDetach |-> onDetach,
       cache |-> cache, log |-> <<>>, thrown |-> FALSE]

Logged(s, e) == [s EXCEPT !.log = Append(@, e)]

Range(seq) == {seq[i] : i \in 1..Len(seq)}

\* ---- the concrete container variant (a flat list) ----

\* has(): membership in the list.
Has(s, g, c) == \E i \in 1..Len(s.children[g]) : s.children[g][i] = c

\* _remove(): splice the component out of the list.
RemoveImpl(s, g, c) ==
  [Logged(s, <<"_remove", g, c>>) EXCEPT
     !.children[g] = SelectSeq(@, LAMBDA x : x # c)]

RECURSIVE Anchor(_, _)
RECURSIVE Render(_, _)
RECURSIVE Destroy(_, _)
RECURSIVE InvalidateCache(_, _)

\* The callbacks ComponentContainer hands to _forEach.
Callback(what, s, c) ==
  CASE what = "anchor" -> Anchor(s, c)
    [] what = "render" -> Render(s, c)
    [] what = "destroy" -> Destroy(s, c)
    [] what = "invalidateCache" -> InvalidateCache(s, c)

\* _forEach(): the callback on every component of the list as it was when the
\* iteration began; an exception thrown by the callback ends the iteration.
ForEach(s, g, what) ==
  LET snapshot == s.children[g]
      RECURSIVE Go(_, _)
      Go(st, i) == IF i > Len(snapshot) \/ st.thrown THEN st
                   ELSE Go(Callback(what, st, snapshot[i]), i + 1)
  IN Go(s, 1)

\* ---- ComponentContainer ----

RECURSIVE Detach(_, _)
RECURSIVE Remove(_, _, _)

\* A faulty variant of remove(): the detach callback stays subscribed.
RemoveKeepsCallback(s, g, c) ==
  IF Has(s, g, c)
  THEN LET s2 == RemoveImpl(s, g, c)
           s3 == Detach(s2, c)
       IN Logged(s3, <<"redraw", g>>)
  ELSE s

\* A faulty variant of remove(): it acts whether or not the component is a member.
RemoveUnguarded(s, g, c) ==
  LET s1 == [Logged(s, <<"offDetach", g, c>>) EXCEPT !.onDetach[c] = @ \ {g}]
      s2 == RemoveImpl(s1, g, c)
      s3 == Detach(s2, c)
  IN Logged(s3, <<"redraw", g>>)

\* remove(component)
Remove(s, g, c) ==
  IF Has(s, g, c)
  THEN LET s1 == [Logged(s, <<"offDetach", g, c>>) EXCEPT !.onDetach[c] = @ \ {g}]
           s2 == RemoveImpl(s1, g, c)
           s3 == Detach(s2, c)
       IN Logged(s3, <<"redraw", g>>)
  ELSE s

\* _detachCallback = (component) => this.remove(component)
DetachCallback(s, g, c) == Remove(Logged(s, <<"callback", g, c>>), g, c)

\* Component.detach(): drop the parent, leave the surface, call the subscribers
\* (those subscribed when the calls begin and still subscribed at their turn).
Detach(s, c) ==
  LET s1 == [Logged(s, <<"detach", c>>) EXCEPT !.parent[c] = None,
                                               !.isAnchored[c] = FALSE]
      subscribers == s1.onDetach[c]
      RECURSIVE Call(_, _)
      Call(st, left) ==
        IF left = {} THEN st
        ELSE LET g == CHOOSE x \in left : TRUE
             IN Call(IF g \in st.onDetach[c] THEN DetachCallback(st, g, c) ELSE st,
                     left \ {g})
  IN Call(s1, subscribers)

\* Component.anchor(): set up on the first anchoring, then anchored.  A Numeric
\* axis' _setup() creates its CacheMeasurer, empty.
ComponentAnchor(s, c) ==
  LET s1 == Logged(s, <<"anchor", c>>)
      s2 == IF s1.isSetup[c] THEN s1
            ELSE [s1 EXCEPT !.isSetup[c] = TRUE,
                            !.cache = IF c \in Axes THEN [@ EXCEPT ![c] = {}] ELSE @]
  IN [s2 EXCEPT !.isAnchored[c] = TRUE]

\* anchor(selection): super.anchor, then every component.
Anchor(s, c) ==
  IF c \in Containers
  THEN ForEach(ComponentAnchor(s, c), c, "anchor")
  ELSE ComponentAnchor(s, c)

\* render(): every component's render.
Render(s, c) ==
  IF c \in Containers
  THEN ForEach(s, c, "render")
  ELSE Logged(s, <<"render", c>>)

\* A faulty variant of _adoptAndAnchor(): no detach callback is subscribed.
AdoptWithoutSubscribing(s, g, c) ==
  LET s1 == [s EXCEPT !.parent[c] = g]
  IN IF s1.isAnchored[g] THEN Anchor(s1, c) ELSE s1

\* _adoptAndAnchor(component)
AdoptAndAnchor(s, g, c) ==
  LET s1 == [s EXCEPT !.parent[c] = g]
      s2 == [Logged(s1, <<"onDetach", g, c>>) EXCEPT !.onDetach[c] = @ \cup {g}]
  IN IF s2.isAnchored[g] THEN Anchor(s2, c) ELSE s2

\* The concrete variant's add: a non-member is detached from where it was,
\* appended to the list, adopted, and a redraw is requested.
AppendTo(s, g, c) ==
  IF Has(s, g, c) THEN s
  ELSE LET s1 == Detach(s, c)
           s2 == [s1 EXCEPT !.children[g] = Append(@, c)]
           s3 == AdoptAndAnchor(s2, g, c)
       IN Logged(s3, <<"redraw", g>>)

\* Component.destroy(): destroyed, then detach().
ComponentDestroy(s, c) ==
  Detach([Logged(s, <<"destroy", c>>) EXCEPT !.destroyed[c] = TRUE], c)

\* A faulty variant of destroy(): the components are left alone.
DestroySelfOnly(s, c) == ComponentDestroy(s, c)

\* destroy(): super.destroy(), then every component's destroy.
Destroy(s, c) ==
  IF c \in Containers
  THEN ForEach(ComponentDestroy(s, c), c, "destroy")
  ELSE ComponentDestroy(s, c)

\* Numeric.invalidateCache(): super.invalidateCache() (nothing for a plain
\* component), then this._measurer.reset().  _measurer is assigned by _setup()
\* alone: on an axis never set up the call is a TypeError.
NumericInvalidateCache(s, a) ==
  IF s.isSetup[a]
  THEN [Logged(s, <<"reset", a>>) EXCEPT !.cache[a] = {}]
  ELSE [Logged(s, <<"throw", a>>) EXCEPT !.thrown = TRUE]

\* invalidateCache(): every component's invalidateCache.
InvalidateCache(s, c) ==
  IF c \in Containers
  THEN ForEach(s, c, "invalidateCache")
  ELSE NumericInvalidateCache(s, c)

\* CacheMeasurer.measure(text): measured on a miss and kept.
Measure(s, a, text) ==
  IF text \in s.cache[a] THEN s
  ELSE [Logged(s, <<"measure", a, text>>) EXCEPT !.cache[a] = @ \cup {text}]

\* _computeExactTextWidth(): measure every formatted tick value.
ComputeExactTextWidth(s, a) ==
  LET RECURSIVE Go(_, _)
      Go(st, i) == IF i > Len(FormattedTicks) THEN st
                   ELSE Go(Measure(st, a, FormattedTicks[i]), i + 1)
  IN Go(s, 1)

\* ---- the operations as actions ----

Apply(s) ==
  /\ children' = s.children
  /\ parent' = s.parent
  /\ isAnchored' = s.isAnchored
  /\ isSetup' = s.isSetup
  /\ destroyed' = s.destroyed
  /\ onDetach' = s.onDetach
  /\ cache' = s.cache
  /\ log' = s.log
  /\ thrown' = s.thrown

Op(name, c, x) == [op |-> name, on |-> c, arg |-> x, pre |-> children,
                   preAnchored |-> isAnchored]

\* The components below c, at any depth.
Below(ch, c) ==
  IF c \notin Containers THEN {}
  ELSE Range(ch[c]) \cup
       UNION {IF d \in Containers /\ d # c THEN Range(ch[d]) ELSE {} : d \in Range(ch[c])}

Live(c) == ~destroyed[c]

InitTree ==
  /\ children = [g \in Containers |-> <<>>]
  /\ parent = [c \in Comps |-> None]
  /\ isAnchored = [c \in Comps |-> FALSE]
  /\ isSetup = [c \in Comps |-> FALSE]
  /\ destroyed = [c \in Comps |-> FALSE]
  /\ onDetach = [c \in Comps |-> {}]
  /\ cache = [a \in Axes |-> {}]
  /\ log = <<>>
  /\ thrown = FALSE
  /\ lastOp = [op |-> "init", on |-> None, arg |-> None,
               pre |-> [g \in Containers |-> <<>>],
               preAnchored |-> [c \in Comps |-> FALSE]]

\* group.append(c)
DoAppend ==
  \E g \in Containers : \E c \in MayHold(g) :
    /\ Live(g) /\ Live(c)
    /\ Apply(AppendTo(St, g, c))
    /\ lastOp' = Op("append", g, c)
    /\ UNCHANGED notTree

\* container.remove(c), for a member or a non-member
DoRemove ==
  \E g \in Containers : \E c \in Comps \ {g} :
    /\ Apply(Remove(St, g, c))
    /\ lastOp' = Op("remove", g, c)
    /\ UNCHANGED notTree

\* c.detach(), called on the component itself
DoDetach ==
  \E c \in Comps :
    /\ Live(c)
    /\ Apply(Detach(St, c))
    /\ lastOp' = Op("detach", c, None)
    /\ UNCHANGED notTree

\* root.anchor(selection)
DoAnchor ==
  \E c \in Comps :
    /\ parent[c] = None /\ Live(c)
    /\ Apply(Anchor(St, c))
    /\ lastOp' = Op("anchor", c, None)
    /\ UNCHANGED notTree

\* c.render()
DoRender ==
  \E c \in Containers :
    /\ Live(c)
    /\ Apply(Render(St, c))
    /\ lastOp' = Op("render", c, None)
    /\ UNCHANGED notTree

\* c.destroy()
DoDestroy ==
  \E c \in Comps :
    /\ Live(c)
    /\ Apply(Destroy(St, c))
    /\ lastOp' = Op("destroy", c, None)
    /\ UNCHANGED notTree

\* c.invalidateCache()
DoInvalidateCache ==
  \E c \in Comps :
    /\ Live(c)
    /\ Apply(InvalidateCache(St, c))
    /\ lastOp' = Op("invalidateCache", c, None)
    /\ UNCHANGED notTree

\* The layout pass asks an anchored axis for its width.
DoComputeWidth ==
  \E a \in Axes :
    /\ isAnchored[a]
    /\ Apply(ComputeExactTextWidth(St, a))
    /\ lastOp' = Op("computeWidth", a, None)
    /\ UNCHANGED notTree

NextTree ==
  \/ DoAppend
  \/ DoRemove
  \/ DoDetach
  \/ DoAnchor
  \/ DoRender
  \/ DoDestroy
  \/ DoInvalidateCache
  \/ DoComputeWidth



(***************************************************************************)
(* The Numeric axis: tick values, tick labels and the hide passes.         *)
(***************************************************************************)

\* The most tick values the scale generates: scale.ticks() is 1..MaxTicks.
MaxTicks == 4
\* tickLabelPadding()
TickLabelPadding == 2

ScaleTicks == [i \in 1..MaxTicks |-> i]
DomainEnds == {1, 2, MaxTicks}

Rect(l, r, t, b) == [left |-> l, right |-> r, top |-> t, bottom |-> b]
\* Label rectangles along a horizontal axis: the label of tick v starts at
\* LabelLeft(v) and is as wide as its text, LabelWidths being the widths.
ExampleRects == <<Rect(0, 10, 0, 10), Rect(8, 18, 0, 10), Rect(20, 30, 0, 10),
                  Rect(40, 50, 0, 10)>>
LabelLeft(v) == IF v <= Len(ExampleRects) THEN ExampleRects[v].left
                ELSE 40 + 20 * (v - Len(ExampleRects))
LabelWidths == {10, 42}
LabelRect(v, w) == Rect(LabelLeft(v), LabelLeft(v) + w, 0, 10)
BoundingBoxes == {Rect(-5, 75, 0, 10), Rect(0, 45, 0, 10)}
Positionings == {"center", "left"}

\* Utils.DOM.expandRect(rect, amount)
ExpandRect(rect, amount) ==
  Rect(rect.left - amount, rect.right + amount, rect.top - amount, rect.bottom + amount)

\* Utils.DOM.clientRectsOverlap(a, b)
ClientRectsOverlap(a, b) ==
  ~(\/ a.right <= b.left \/ b.right <= a.left
    \/ a.bottom <= b.top \/ b.bottom <= a.top)

\* Utils.DOM.clientRectInside(inner, outer)
ClientRectInside(inner, outer) ==
  /\ outer.left <= inner.left /\ outer.top <= inner.top
  /\ inner.right <= outer.right /\ inner.bottom <= outer.bottom

\* _getTickValues(): the scale's ticks within the domain, given in either order.
GetTickValues(dom) ==
  LET min == IF dom[1] <= dom[2] THEN dom[1] ELSE dom[2]
      max == IF dom[1] >= dom[2] THEN dom[1] ELSE dom[2]
  IN SelectSeq(ScaleTicks, LAMBDA i : i >= min /\ i <= max)

\* The filter of _hideOverlappingTickLabels and _hideTickMarksWithoutLabel.
IsVisible(e) == e.visibility = "inherit" \/ e.visibility = "visible"

Hide(elems, i) == [elems EXCEPT ![i].visibility = "hidden"]

\* selection.data(values): the elements kept are rebound to the new values in
\* order, the surplus is removed, the missing are appended.
Join(elems, values) ==
  [i \in 1..Len(values) |->
     IF i <= Len(elems) THEN [elems[i] EXCEPT !.value = values[i]]
     ELSE [value |-> values[i], visibility |-> "visible"]]

\* .style("visibility", "inherit") on every element of the selection
ShowAll(elems) == [i \in 1..Len(elems) |-> [elems[i] EXCEPT !.visibility = "inherit"]]

\* _showAllTickMarks()
ShowAllTickMarks(marks) == ShowAll(marks)

\* _hideEndTickLabels()
HideEndTickLabels(labels, rects, box) ==
  IF Len(labels) = 0 THEN labels
  ELSE LET l1 == IF ~ClientRectInside(rects[labels[1].value], box)
                 THEN Hide(labels, 1) ELSE labels
           n == Len(labels)
       IN IF ~ClientRectInside(rects[labels[n].value], box) THEN Hide(l1, n) ELSE l1

\* _hideOverflowingTickLabels()
HideOverflowingTickLabels(labels, rects, box) ==
  [i \in 1..Len(labels) |->
     IF ~ClientRectInside(rects[labels[i].value], box)
     THEN [labels[i] EXCEPT !.visibility = "hidden"] ELSE labels[i]]

\* The padding of _hasOverlapWithInterval.
OverlapPadding(pos) == IF pos = "center" THEN TickLabelPadding ELSE TickLabelPadding * 3

\* A faulty variant of _hasOverlapWithInterval(): the loop steps by one, so it tests
\* every pair of rects interval apart.
HasOverlapEveryPair(interval, rects, padding) ==
  LET withPadding == [i \in 1..Len(rects) |-> ExpandRect(rects[i], padding)]
      RECURSIVE Go(_)
      Go(i) == IF ~(i < Len(withPadding) - interval) THEN TRUE
               ELSE IF ClientRectsOverlap(withPadding[i + 1], withPadding[i + interval + 1])
                    THEN FALSE
                    ELSE Go(i + 1)
  IN Go(0)

\* _hasOverlapWithInterval(interval, rects): FALSE when two of the rects taken
\* overlap, TRUE when none do (i is the code's 0-based index).
HasOverlapWithInterval(interval, rects, padding) ==
  LET withPadding == [i \in 1..Len(rects) |-> ExpandRect(rects[i], padding)]
      RECURSIVE Go(_)
      Go(i) == IF ~(i < Len(withPadding) - interval) THEN TRUE
               ELSE IF ClientRectsOverlap(withPadding[i + 1], withPadding[i + interval + 1])
                    THEN FALSE
                    ELSE Go(i + interval)
  IN Go(0)

\* The positions (in the element list) of the visible elements, in order.
VisiblePositions(elems) ==
  LET RECURSIVE Go(_)
      Go(i) == IF i > Len(elems) THEN <<>>
               ELSE (IF IsVisible(elems[i]) THEN <<i>> ELSE <<>>) \o Go(i + 1)
  IN Go(1)

\* _hideOverlappingTickLabels(): the labels after the pass, with what it saw.
HideOverlappingTickLabels(labels, rects, pos) ==
  LET visible == VisiblePositions(labels)
      visibleRects == [j \in 1..Len(visible) |-> rects[labels[visible[j]].value]]
      RECURSIVE Search(_)
      Search(interval) ==
        IF ~HasOverlapWithInterval(interval, visibleRects, OverlapPadding(pos))
           /\ interval < Len(visibleRects)
        THEN Search(interval + 1) ELSE interval
      interval == Search(1)
      hidden == {visible[j] : j \in {x \in 1..Len(visible) : (x - 1) % interval # 0}}
  IN [labels |-> [i \in 1..Len(labels) |->
                    IF i \in hidden THEN [labels[i] EXCEPT !.visibility = "hidden"]
                    ELSE labels[i]],
      pass |-> [visible |-> visible, rects |-> visibleRects, interval |-> interval]]

\* _hideTickMarksWithoutLabel()
HideTickMarksWithoutLabel(marks, labels) ==
  LET shown == {labels[i].value : i \in {j \in 1..Len(labels) : IsVisible(labels[j])}}
  IN [i \in 1..Len(marks) |->
        IF marks[i].value \notin shown THEN [marks[i] EXCEPT !.visibility = "hidden"]
        ELSE marks[i]]

\* The passes of renderImmediately() after the labels are bound and styled.
HidePasses(labels0, marks0, in) ==
  LET marks1 == ShowAllTickMarks(marks0)
      labels1 == IF ~in.showEnd
                 THEN HideEndTickLabels(labels0, in.rectOf, in.boundingBox)
                 ELSE labels0
      labels2 == HideOverflowingTickLabels(labels1, in.rectOf, in.boundingBox)
      over == HideOverlappingTickLabels(labels2, in.rectOf, in.positioning)
      marks2 == IF in.positioning # "center"
                THEN HideTickMarksWithoutLabel(marks1, over.labels)
                ELSE marks1
  IN [tickLabels |-> over.labels, tickMarks |-> marks2, pass |-> over.pass]

\* A faulty variant of renderImmediately(): the labels' visibility is not reset.
RenderWithoutReset(labels, marks, in) ==
  LET values == GetTickValues(in.domain)
  IN HidePasses(Join(labels, values), Join(marks, values), in)

\* renderImmediately(): bind a mark and a label to every tick value, make all
\* labels visible, then run the hide passes.
RenderImmediately(labels, marks, in) ==
  LET values == GetTickValues(in.domain)
  IN HidePasses(ShowAll(Join(labels, values)), Join(marks, values), in)

Inputs == [domain |-> domain, rectOf |-> rectOf, boundingBox |-> boundingBox,
           showEnd |-> showEnd, positioning |-> positioning]

\* The render pass on the elements as they are, under the inputs in.
RenderPass(in, name) ==
  LET out == RenderImmediately(tickLabels, tickMarks, in)
  IN /\ domain' = in.domain
     /\ rectOf' = in.rectOf
     /\ boundingBox' = in.boundingBox
     /\ showEnd' = in.showEnd
     /\ positioning' = in.positioning
     /\ tickLabels' = out.tickLabels
     /\ tickMarks' = out.tickMarks
     /\ pass' = out.pass
     /\ axisOp' = name
     /\ UNCHANGED notAxis

InitAxis ==
  /\ domain = <<1, MaxTicks>>
  /\ rectOf = [v \in 1..MaxTicks |-> LabelRect(v, 10)]
  /\ boundingBox = Rect(-5, 75, 0, 10)
  /\ showEnd = TRUE
  /\ positioning = "center"
  /\ tickLabels = <<>>
  /\ tickMarks = <<>>
  /\ pass = [visible |-> <<>>, rects |-> <<>>, interval |-> 1]
  /\ axisOp = "init"

\* The scale's domain changes: _rescale() renders the (horizontal) axis.
Rescale ==
  \E lo \in DomainEnds, hi \in DomainEnds :
    /\ <<lo, hi>> # domain
    /\ RenderPass([Inputs EXCEPT !.domain = <<lo, hi>>], "rescale")

\* tickLabelPosition(position): set, then redraw.
TickLabelPosition ==
  \E p \in Positionings :
    /\ p # positioning
    /\ RenderPass([Inputs EXCEPT !.positioning = p], "tickLabelPosition")

\* showEndTickLabels(show): set, then render.
ShowEndTickLabels ==
  \E b \in BOOLEAN :
    /\ b # showEnd
    /\ RenderPass([Inputs EXCEPT !.showEnd = b], "showEndTickLabels")

\* The layout gives a label another rectangle (its text or the scale's range
\* changed), then renders.
Relayout ==
  \E v \in 1..MaxTicks, w \in LabelWidths :
    /\ LabelRect(v, w) # rectOf[v]
    /\ RenderPass([Inputs EXCEPT !.rectOf[v] = LabelRect(v, w)], "relayout")

\* The axis is given another box, then renders.
Resize ==
  \E box \in BoundingBoxes :
    /\ box # boundingBox
    /\ RenderPass([Inputs EXCEPT !.boundingBox = box], "resize")

\* renderImmediately() again, nothing changed.
Rerender == RenderPass(Inputs, "render")

NextAxis ==
  \/ Rescale
  \/ TickLabelPosition
  \/ ShowEndTickLabels
  \/ Relayout
  \/ Resize
  \/ Rerender

(***************************************************************************)
(* The Grid plot: datasets and projections.  Projected values are kept     *)
(* doubled, so that scale(v) -/+ rangeBand() / 2 is exact for an odd band. *)
(***************************************************************************)

\* The most datasets added without a key that are numbered.
MaxSeries == 1

Attrs == {"x", "x1", "x2", "y", "y1", "y2", "fill"}
\* A category scale, a quantitative scale, a scale that is neither.
Scales == {"category", "linear", "color"}
\* The accessors a caller passes: (d, i) => d.v and (d, i) => i.
UserAccessors == {"value", "index"}
DataValues == 0..2
Keys == {"a"}
DatasetPool == {<<0, 2, 1>>, <<1, 1>>}

\* scale instanceof Scales.Category / Scales.AbstractQuantitative
IsCategory(scale) == scale = "category"
IsQuantitative(scale) == scale = "linear"

\* scale.scale(v)
ScaleOf(scale, v) ==
  CASE scale = "category" -> 5 * v + 2
    [] scale = "linear" -> 100 - 7 * v
    [] OTHER -> v

\* scale.rangeBand()
RangeBand(scale) == IF scale = "category" THEN 5 ELSE 0

\* A caller's accessor on datum d at (0-based) index i.
UserAccessor(acc, d, i) == IF acc = "value" THEN d ELSE i

\* The accessors project() makes: scale.scale(_projections[axis].accessor(d, i))
\* plus sign * scale.rangeBand() / 2, the scale captured, the accessor read from
\* _projections when the value is asked for.
Derived(axis, scale, sign) ==
  [derived |-> TRUE, id |-> None, axis |-> axis, scale |-> scale, sign |-> sign]
User(acc) == [derived |-> FALSE, id |-> acc, axis |-> None, scale |-> None, sign |-> 0]
\* An attribute nothing was projected to.
NoProjection == [accessor |-> User(None), scale |-> None]

\* accessor(d, i), doubled, under the projections proj.
Accessor2(proj, acc, d, i) ==
  IF acc.derived
  THEN LET inner == proj[acc.axis].accessor
           v == IF inner.derived THEN 0 ELSE UserAccessor(inner.id, d, i)
       IN 2 * ScaleOf(acc.scale, v) + acc.sign * RangeBand(acc.scale)
  ELSE 2 * UserAccessor(acc.id, d, i)

\* The projector of an attribute: the accessor, through the scale if it has one.
Projector2(proj, attr, d, i) ==
  LET p == proj[attr]
  IN IF p.scale # None /\ ~p.accessor.derived
     THEN 2 * ScaleOf(p.scale, UserAccessor(p.accessor.id, d, i))
     ELSE Accessor2(proj, p.accessor, d, i)

\* Plot.project(attrToSet, accessor, scale): the projection is stored.
PlotProject(g, attr, accessor, scale) ==
  [g EXCEPT !.projections[attr] = [accessor |-> accessor, scale |-> scale],
            !.set = Append(@, attr)]

\* A faulty variant of project(): the second derived projection subtracts the half band.
ProjectBothLow(g, attr, acc, scale) ==
  LET g1 == PlotProject(g, attr, User(acc), scale)
      Derive(st, axis) ==
        IF attr # axis THEN st
        ELSE LET c1 == IF IsCategory(scale)
                       THEN PlotProject(
                              PlotProject(st, axis \o "1", Derived(axis, scale, -1), None),
                              axis \o "2", Derived(axis, scale, -1), None)
                       ELSE st
             IN IF IsQuantitative(scale)
                THEN PlotProject(c1, axis \o "1", Derived(axis, scale, 0), None)
                ELSE c1
      g2 == Derive(Derive(g1, "x"), "y")
  IN IF attr = "fill" THEN [g2 EXCEPT !.colorScale = g2.projections["fill"].scale]
     ELSE g2

\* project(attrToSet, accessor, scale)
Project(g, attr, acc, scale) ==
  LET g1 == PlotProject(g, attr, User(acc), scale)
      Derive(st, axis) ==
        IF attr # axis THEN st
        ELSE LET c1 == IF IsCategory(scale)
                       THEN PlotProject(
                              PlotProject(st, axis \o "1", Derived(axis, scale, -1), None),
                              axis \o "2", Derived(axis, scale, 1), None)
                       ELSE st
             IN IF IsQuantitative(scale)
                THEN PlotProject(c1, axis \o "1", Derived(axis, scale, 0), None)
                ELSE c1
      g2 == Derive(Derive(g1, "x"), "y")
  IN IF attr = "fill" THEN [g2 EXCEPT !.colorScale = g2.projections["fill"].scale]
     ELSE g2

\* Plot.addDataset(keyOrDataset, dataset): under the key given, or under "_n";
\* a dataset already under the key is replaced.
PlotAddDataset(g, key, dataset) ==
  LET k == IF key = None THEN "_" \o ToString(g.nextSeriesIndex) ELSE key
      kept == SelectSeq(g.datasetKeysInOrder, LAMBDA x : x # k)
  IN [g EXCEPT !.nextSeriesIndex = IF key = None THEN @ + 1 ELSE @,
               !.datasetKeysInOrder = Append(kept, k),
               !.datasets = [x \in (DOMAIN @) \cup {k} |-> IF x = k THEN dataset ELSE @[x]]]

\* A faulty variant of addDataset(): a second dataset is taken like the first.
AddDatasetAlways(g, key, dataset) == PlotAddDataset(g, key, dataset)

\* addDataset(keyOrDataset, dataset)
AddDataset(g, key, dataset) ==
  IF Len(g.datasetKeysInOrder) = 1
  THEN [g EXCEPT !.warned = TRUE]
  ELSE PlotAddDataset(g, key, dataset)

\* Plot.removeDataset(key)
PlotRemoveDataset(g, key) ==
  [g EXCEPT !.datasetKeysInOrder = SelectSeq(@, LAMBDA x : x # key),
            !.datasets = [x \in (DOMAIN @) \ {key} |-> @[x]]]

\* Plot._generateAttrToProjector(): a projector for every attribute that has a
\* projection; the projector reads _projections when it is called.
GenerateAttrToProjector(g) ==
  [a \in {b \in Attrs : g.projections[b] # NoProjection} |-> g.projections[a]]

\* _generateDrawSteps(): one step, all the projectors and the "cells" animator
\* (the constructor made it an Animators.Null).
GenerateDrawSteps(g) ==
  <<[attrToProjector |-> GenerateAttrToProjector(g), animator |-> "Null"]>>

\* The plot as the operations see it, with what the operation under way did:
\* the attributes it stored, whether it warned.
Plot == [projections |-> projections, colorScale |-> colorScale,
         datasetKeysInOrder |-> datasetKeysInOrder, datasets |-> datasets,
         nextSeriesIndex |-> nextSeriesIndex, set |-> <<>>, warned |-> FALSE]

GridApply(g, op) ==
  /\ projections' = g.projections
  /\ colorScale' = g.colorScale
  /\ datasetKeysInOrder' = g.datasetKeysInOrder
  /\ datasets' = g.datasets
  /\ nextSeriesIndex' = g.nextSeriesIndex
  /\ gridOp' = [op EXCEPT !.set = g.set, !.warned = g.warned]
  /\ UNCHANGED notGrid

GridOp(name, attr, acc, scale) ==
  [op |-> name, attr |-> attr, acc |-> acc, scale |-> scale, set |-> <<>>,
   warned |-> FALSE, returned |-> "this", preKeys |-> datasetKeysInOrder,
   preDatasets |-> datasets,
   pre2 |-> IF attr \in {"x", "y"} THEN projections[attr \o "2"] ELSE NoProjection]

\* new Grid(xScale, yScale, colorScale)
InitGrid ==
  /\ projections = [a \in Attrs |-> NoProjection]
  /\ colorScale = "color"
  /\ datasetKeysInOrder = <<>>
  /\ datasets = <<>>
  /\ nextSeriesIndex = 0
  /\ gridOp = [op |-> "init", attr |-> None, acc |-> None, scale |-> None,
               set |-> <<>>, warned |-> FALSE, returned |-> "this",
               preKeys |-> <<>>, preDatasets |-> <<>>, pre2 |-> NoProjection]

\* plot.project(attr, accessor, scale): x and y with a category scale, a
\* quantitative scale or none, fill with the color scale
DoProject ==
  \E attr \in {"x", "y", "fill"}, acc \in UserAccessors, scale \in Scales \cup {None} :
    /\ (scale = "color") <=> (attr = "fill")
    /\ attr = "fill" => acc = "value"
    /\ GridApply(Project(Plot, attr, acc, scale), GridOp("project", attr, acc, scale))

\* plot.addDataset(key, dataset) and plot.addDataset(dataset)
DoAddDataset ==
  \E key \in Keys \cup {None}, dataset \in DatasetPool :
    /\ key = None => nextSeriesIndex < MaxSeries
    /\ GridApply(AddDataset(Plot, key, dataset), GridOp("addDataset", key, None, None))

\* plot.removeDataset(key)
DoRemoveDataset ==
  \E i \in 1..Len(datasetKeysInOrder) :
    GridApply(PlotRemoveDataset(Plot, datasetKeysInOrder[i]),
              GridOp("removeDataset", datasetKeysInOrder[i], None, None))

\* The plot is rendered: the draw steps are generated from the projections as
\* they are now.
DoGenerateDrawSteps ==
  LET steps == GenerateDrawSteps(Plot)
  IN GridApply(Plot, [GridOp("render", None, None, None) EXCEPT !.returned = steps])

NextGrid ==
  \/ DoProject
  \/ DoAddDataset
  \/ DoRemoveDataset
  \/ DoGenerateDrawSteps


(***************************************************************************)
(* The Rectangle drawer's canvas draw.  Opacities are in tenths: 0 is      *)
(* transparent, 10 opaque.                                                 *)
(***************************************************************************)

\* The most data points drawn in one call.
MaxData == 2

\* Null stands for a colour attribute that resolves to null or undefined,
\* NoNumber for a numeric one; Number(n) is the number n.
Null == "null"
NoNumber == [present |-> FALSE]
Number(n) == [present |-> TRUE, n |-> n]
\* The colours the projected data gives: valid CSS colours, as Grid.project asks.
StrokeColors == {"rgba(255, 0, 0, 0.5)"}
FillColors == {"blue"}
Opacities == {Number(0), Number(5), Number(10)}
RectAttrs == {"x", "y", "width", "height"}
Steps == {RectAttrs \cup {"stroke", "fill", "opacity"},
          RectAttrs \cup {"stroke", "fill"},
          RectAttrs \cup {"fill", "opacity"}}

\* d3.color(string): the channels and the colour's own opacity.
D3Color(string) ==
  CASE string = "blue" -> [r |-> 0, g |-> 0, b |-> 255, opacity |-> 10]
    [] string = "rgba(255, 0, 0, 0.5)" -> [r |-> 255, g |-> 0, b |-> 0, opacity |-> 5]

\* color.rgb().toString(): "rgb(r, g, b)" when opaque, else "rgba(r, g, b, a)".
RgbToString(color) ==
  LET a == IF color.opacity < 0 THEN 0 ELSE IF color.opacity > 10 THEN 10 ELSE color.opacity
  IN IF a = 10 THEN <<"rgb", color.r, color.g, color.b>>
     ELSE <<"rgba", color.r, color.g, color.b, a>>

\* if (value): JavaScript's truthiness of a resolved attribute, a string or
\* null for a colour, a number or null for the opacity.
Truthy(value) == value # Null /\ value # ""
TruthyNumber(value) == value.present /\ value.n # 0

\* resolvedAttrs: every attribute of the step, by its projector on the point.
ResolvedAttrs(point, stp) ==
  [a \in DOMAIN point |->
     IF a \in stp THEN point[a] ELSE IF a = "opacity" THEN NoNumber ELSE Null]

Call(ctx, c) == [ctx EXCEPT !.calls = Append(@, c)]

\* The colour applied for a stroke or a fill.
StyleOf(attrs, name) ==
  LET color == D3Color(attrs[name])
  IN RgbToString(IF TruthyNumber(attrs["opacity"])
                 THEN [color EXCEPT !.opacity = attrs["opacity"].n]
                 ELSE color)

StrokePoint(ctx, attrs, index) ==
  IF Truthy(attrs["stroke"])
  THEN LET c1 == [ctx EXCEPT !.strokeStyle = StyleOf(attrs, "stroke")]
       IN Call(c1, [op |-> "stroke", index |-> index, style |-> c1.strokeStyle])
  ELSE ctx

FillPoint(ctx, attrs, index) ==
  IF Truthy(attrs["fill"])
  THEN LET c1 == [ctx EXCEPT !.fillStyle = StyleOf(attrs, "fill")]
       IN Call(c1, [op |-> "fill", index |-> index, style |-> c1.fillStyle])
  ELSE ctx

PathPoint(ctx, attrs, index) ==
  Call(Call(ctx, [op |-> "beginPath", index |-> index]),
       [op |-> "rect", index |-> index,
        args |-> <<attrs["x"], attrs["y"], attrs["width"], attrs["height"]>>])

\* A faulty variant of the forEach body: a point stroked is not filled.
DrawPointStrokeElseFill(ctx, point, index, stp) ==
  LET attrs == ResolvedAttrs(point, stp)
      c1 == PathPoint(ctx, attrs, index)
  IN IF Truthy(attrs["stroke"]) THEN StrokePoint(c1, attrs, index)
     ELSE FillPoint(c1, attrs, index)

\* The body of data.forEach in _canvasDraw, on the point at (0-based) index.
DrawPoint(ctx, point, index, stp) ==
  LET attrs == ResolvedAttrs(point, stp)
      c1 == PathPoint(ctx, attrs, index)
      c2 == StrokePoint(c1, attrs, index)
  IN FillPoint(c2, attrs, index)

\* _canvasDraw(data, step, context)
CanvasDraw(points, stp, ctx) ==
  LET RECURSIVE Go(_, _)
      Go(c, i) == IF i > Len(points) THEN c
                  ELSE Go(DrawPoint(c, points[i], i - 1, stp), i + 1)
  IN Go(ctx, 1)

\* A context nothing was drawn on yet.
FreshContext == [strokeStyle |-> <<"rgb", 0, 0, 0>>, fillStyle |-> <<"rgb", 0, 0, 0>>,
                 calls |-> <<>>]

InitDraw ==
  /\ data = <<>>
  /\ step = RectAttrs \cup {"stroke", "fill", "opacity"}
  /\ context = FreshContext
  /\ drawn = FALSE

\* The dataset gets one more point; the canvas is cleared for the next draw.
AddPoint ==
  \E s \in StrokeColors \cup {Null}, f \in FillColors \cup {Null},
     o \in Opacities \cup {NoNumber} :
    /\ Len(data) < MaxData
    /\ data' = Append(data, [x |-> 10 * Len(data), y |-> 0, width |-> 8, height |-> 8,
                             stroke |-> s, fill |-> f, opacity |-> o])
    /\ context' = FreshContext
    /\ drawn' = FALSE
    /\ UNCHANGED <<step, notDraw>>

\* The dataset is emptied.
ClearData ==
  /\ data # <<>>
  /\ data' = <<>>
  /\ context' = FreshContext
  /\ drawn' = FALSE
  /\ UNCHANGED <<step, notDraw>>

\* Another draw step: other attributes have projectors.
SetStep ==
  \E stp \in Steps :
    /\ stp # step
    /\ step' = stp
    /\ context' = FreshContext
    /\ drawn' = FALSE
    /\ UNCHANGED <<data, notDraw>>

\* drawer._canvasDraw(data, step, context) on the cleared canvas
Draw ==
  /\ ~drawn
  /\ context' = CanvasDraw(data, step, context)
  /\ drawn' = TRUE
  /\ UNCHANGED <<data, step, notDraw>>

NextDraw ==
  \/ AddPoint
  \/ ClearData
  \/ SetStep
  \/ Draw


(***************************************************************************)
(* Specifications                                                          *)
(***************************************************************************)
Init == InitTree /\ InitAxis /\ InitGrid /\ InitDraw

SpecTree == Init /\ [][NextTree]_vars
SpecAxis == Init /\ [][NextAxis]_vars
SpecGrid == Init /\ [][NextGrid]_vars
SpecDraw == Init /\ [][NextDraw]_vars

(***************************************************************************)
(* Properties of the component tree                                        *)
(***************************************************************************)

\* How many times the last operation made the call e.
Calls(e) == Cardinality({i \in 1..Len(log) : log[i] = e})

WasMember(g, c) == c \in Range(lastOp.pre[g])
IsMember(g, c) == c \in Range(children[g])

\* C1: after remove(x) has(x) is false; remove(x) of a non-member leaves every
\* container's components as they were and makes no call at all: no offDetach,
\* no _remove, no detach, no redraw request.
C1_RemoveContract ==
  lastOp.op = "remove" =>
    /\ ~Has(St, lastOp.on, lastOp.arg)
    /\ ~WasMember(lastOp.on, lastOp.arg) => /\ children = lastOp.pre
                                            /\ log = <<>>

\* C1 witness: remove(x) of a member has run, and did its four calls.
C1_Witness ==
  /\ lastOp.op = "remove"
  /\ WasMember(lastOp.on, lastOp.arg)
  /\ Len(lastOp.pre[lastOp.on]) >= 2
  /\ Calls(<<"redraw", lastOp.on>>) = 1

C3_CallbackSymmetry ==
  \A g \in Containers : \A c \in Comps :
    /\ (g \in onDetach[c]) <=> IsMember(g, c)
    /\ Calls(<<"onDetach", g, c>>) = IF IsMember(g, c) /\ ~WasMember(g, c) THEN 1 ELSE 0
    /\ Calls(<<"offDetach", g, c>>) = IF WasMember(g, c) /\ ~IsMember(g, c) THEN 1 ELSE 0
    /\ Calls(<<"_remove", g, c>>) = IF WasMember(g, c) /\ ~IsMember(g, c) THEN 1 ELSE 0

\* C3 witness: a member detached itself and its container removed it.
C3_Witness ==
  /\ lastOp.op = "detach"
  /\ WasMember("G", lastOp.on)
  /\ ~IsMember("G", lastOp.on)
  /\ Calls(<<"callback", "G", lastOp.on>>) = 1

\* The axes an invalidateCache() on c is to reach: c itself and all below it.
Reached(c) == ({c} \cup Below(lastOp.pre, c)) \cap Axes

\* C9: after c.invalidateCache(), no axis that is c or below c holds a
\* measurement made before the call (so the next width computation measures
\* every tick label again), and no component's anchored state has changed.
C9_InvalidateCacheReachesAll ==
  lastOp.op = "invalidateCache" =>
    /\ \A a \in Reached(lastOp.on) :
         /\ cache[a] = {}
         /\ isSetup[a] =>
              LET after == ComputeExactTextWidth(St, a)
              IN {after.log[i][3] : i \in 1..Len(after.log)} = Range(FormattedTicks)
    /\ isAnchored = lastOp.preAnchored


(***************************************************************************)
(* Properties of the Numeric axis                                          *)
(***************************************************************************)

Min(S) == CHOOSE x \in S : \A y \in S : x <= y

Padded(i) == ExpandRect(pass.rects[i], OverlapPadding(positioning))

\* The interval of the claim as written: the smallest k >= 1 such that no two
\* rects k positions apart overlap (true of k = number of rects at the latest).
IntervalEveryPair ==
  LET n == Len(pass.rects)
  IN Min({k \in 1..(IF n = 0 THEN 1 ELSE n) :
            \A i \in 1..n : i + k <= n => ~ClientRectsOverlap(Padded(i), Padded(i + k))})

\* The interval of the amended claim: the smallest k >= 1 such that no two
\* consecutive rects among those at positions 0, k, 2k, ... overlap.
IntervalKept ==
  LET n == Len(pass.rects)
  IN Min({k \in 1..(IF n = 0 THEN 1 ELSE n) :
            \A i \in 1..n : ((i - 1) % k = 0 /\ i + k <= n)
                              => ~ClientRectsOverlap(Padded(i), Padded(i + k))})

\* The labels visible now, as positions among those the overlap pass saw.
VisibleAfter == {j \in 1..Len(pass.visible) : IsVisible(tickLabels[pass.visible[j]])}

\* C4 as written: the labels left visible by the overlap pass are those at the
\* 0-indexed multiples of the smallest interval at which no two rects that far
\* apart overlap.
C4_AsWritten ==
  axisOp # "init" =>
    VisibleAfter = {j \in 1..Len(pass.visible) : (j - 1) % IntervalEveryPair = 0}

\* C4 amended: the interval chosen is the smallest k >= 1 at which no two
\* consecutive rects among those at positions 0, k, 2k, ... overlap once
\* expanded by the padding (the number of rects if no smaller one will do);
\* exactly the labels at the 0-indexed multiples of k stay visible; for the
\* rects [0,10],[8,18],[20,30],[40,50] and padding 2 that is k = 2 and {0, 2}.
C4_IntervalOfKeptLabels ==
  axisOp # "init" =>
    /\ pass.interval = IntervalKept
    /\ VisibleAfter = {j \in 1..Len(pass.visible) : (j - 1) % IntervalKept = 0}
    /\ \A i \in 1..Len(tickLabels) :
         i \notin Range(pass.visible) => tickLabels[i].visibility = "hidden"
    /\ (pass.rects = ExampleRects /\ OverlapPadding(positioning) = 2)
         => pass.interval = 2 /\ VisibleAfter = {1, 3}

\* C4 witness: the overlap pass has run on the four rects of the example.
C4_Witness ==
  /\ axisOp # "init"
  /\ pass.rects = ExampleRects
  /\ OverlapPadding(positioning) = 2
  /\ pass.interval = 2

\* C10: after every render pass the labels and marks are what one pass on a
\* fresh axis gives under the same tick values, rectangles and settings,
\* whatever earlier passes hid.
C10_RenderForgetsEarlierPasses ==
  axisOp # "init" =>
    LET fresh == RenderImmediately(<<>>, <<>>, Inputs)
        Vis(elems) == [i \in 1..Len(elems) |-> <<elems[i].value, IsVisible(elems[i])>>]
    IN /\ Vis(tickLabels) = Vis(fresh.tickLabels)
       /\ Vis(tickMarks) = Vis(fresh.tickMarks)

\* C10 witness: a pass has run again on unchanged inputs, and it hides labels.
C10_Witness ==
  /\ axisOp = "render"
  /\ \E i \in 1..Len(tickLabels) : ~IsVisible(tickLabels[i])
  /\ \E i \in 1..Len(tickLabels) : IsVisible(tickLabels[i])
  /\ \E i \in 1..Len(tickMarks) : ~IsVisible(tickMarks[i])


(***************************************************************************)
(* Properties of the Grid plot                                             *)
(***************************************************************************)

Indices == 0..2

\* C5: after project(axis, accessor, scale) with a category scale, the
\* projections <axis>1 and <axis>2 give scale(accessor(d, i)) - rangeBand/2 and
\* scale(accessor(d, i)) + rangeBand/2 for every datum d at index i; with a
\* quantitative scale the call derives <axis>1 alone, equal to
\* scale(accessor(d, i)).  (Both sides doubled.)
C5_DerivedProjections ==
  (gridOp.op = "project" /\ gridOp.attr \in {"x", "y"}) =>
    LET axis == gridOp.attr
        Scaled(d, i) == ScaleOf(gridOp.scale, UserAccessor(gridOp.acc, d, i))
    IN /\ IsCategory(gridOp.scale) =>
            /\ gridOp.set = <<axis, axis \o "1", axis \o "2">>
            /\ \A d \in DataValues, i \in Indices :
                 /\ Projector2(projections, axis \o "1", d, i)
                      = 2 * Scaled(d, i) - RangeBand(gridOp.scale)
                 /\ Projector2(projections, axis \o "2", d, i)
                      = 2 * Scaled(d, i) + RangeBand(gridOp.scale)
       /\ IsQuantitative(gridOp.scale) =>
            /\ gridOp.set = <<axis, axis \o "1">>
            /\ projections[axis \o "2"] = gridOp.pre2
            /\ \A d \in DataValues, i \in Indices :
                 Projector2(projections, axis \o "1", d, i) = 2 * Scaled(d, i)

\* C5 witness: x has been bound to the category scale, by index, on a plot
\* that holds a dataset and has y bound to the quantitative scale.
C5_Witness ==
  /\ gridOp.op = "project"
  /\ gridOp.attr = "x"
  /\ gridOp.acc = "index"
  /\ IsCategory(gridOp.scale)
  /\ projections["y1"] = [accessor |-> Derived("y", "linear", 0), scale |-> None]
  /\ Len(datasetKeysInOrder) = 1

\* C6: the plot never holds more than one dataset; an addDataset on a plot that
\* holds one warns, returns the plot and leaves the dataset and its key alone.
C6_OneDataset ==
  /\ Len(datasetKeysInOrder) <= 1
  /\ DOMAIN datasets = Range(datasetKeysInOrder)
  /\ (gridOp.op = "addDataset" /\ Len(gridOp.preKeys) = 1) =>
       /\ gridOp.warned
       /\ gridOp.returned = "this"
       /\ datasetKeysInOrder = gridOp.preKeys
       /\ datasets = gridOp.preDatasets

\* C6 witness: a second dataset, another one under another key, was refused.
C6_Witness ==
  /\ gridOp.op = "addDataset"
  /\ gridOp.preKeys = <<"a">>
  /\ gridOp.attr = None
  /\ gridOp.warned

\* The draw step of the last render.
Step == gridOp.returned[1].attrToProjector

\* C11: in the draw step generated at render time every derived projection is
\* computed from the scale most recently bound to its axis; once the axis is
\* bound to a quantitative scale the step holds <axis>1 equal to that scale's
\* direct value and no <axis>2 computed from a category scale bound earlier.
\* (Values doubled.)
C11_StepFollowsLatestScale ==
  gridOp.op = "render" =>
    /\ \A a \in DOMAIN Step :
         Step[a].accessor.derived =>
           Step[a].accessor.scale = projections[Step[a].accessor.axis].scale
    /\ \A axis \in {"x", "y"} :
         IsQuantitative(projections[axis].scale) =>
           /\ axis \o "1" \in DOMAIN Step
           /\ \A d \in DataValues, i \in Indices :
                Projector2(projections, axis \o "1", d, i)
                  = 2 * ScaleOf(projections[axis].scale,
                                UserAccessor(projections[axis].accessor.id, d, i))
           /\ axis \o "2" \in DOMAIN Step => ~IsCategory(Step[axis \o "2"].accessor.scale)


(***************************************************************************)
(* Properties of the Rectangle drawer                                      *)
(***************************************************************************)

\* What the step resolves an attribute of the point at position i to.
Resolved(i, a) ==
  IF a \in step THEN data[i][a] ELSE IF a = "opacity" THEN NoNumber ELSE Null

\* The calls made for the point at position i (0-based index i - 1), in order.
CallsFor(i) == SelectSeq(context.calls, LAMBDA c : c.index = i - 1)

Names(calls) == [k \in 1..Len(calls) |-> calls[k].op]

AlphaOf(style) == IF style[1] = "rgb" THEN 10 ELSE style[5]

\* C8: for every point whose opacity resolves to a present value, the stroke
\* and fill colours applied carry that opacity; when the opacity is absent
\* they carry the colour's own alpha.
C8_OpacityApplied ==
  drawn =>
    \A k \in 1..Len(context.calls) :
      LET c == context.calls[k] IN
      c.op \in {"stroke", "fill"} =>
        AlphaOf(c.style) =
          IF Resolved(c.index + 1, "opacity").present
          THEN Resolved(c.index + 1, "opacity").n
          ELSE D3Color(Resolved(c.index + 1, c.op)).opacity

====
